---- MODULE Spec2Model ----
(***************************************************************************)
(* Model of get_package_weight_map (usda_mmn_utils.py), the routine that   *)
(* maps (commodity, variety, package) to a weight in pounds, together with *)
(* the three files it works on: MARS_to_TONW.csv, the Table of Net Weights *)
(* spreadsheet and the persisted cache package_to_pounds.csv.              *)
(*                                                                         *)
(* Text is modelled as a sequence of one-character strings, so that the    *)
(* substring test, replace, split, list.index and int() of the source are  *)
(* computed rather than assumed.  The two reference tables are the         *)
(* sequences of their rows (the source takes the first matching row).  The *)
(* cache and the returned frames are bags of rows: the source never looks  *)
(* at the order of their rows, only at which rows there are and how often. *)
(***************************************************************************)
EXTENDS Integers, Sequences, FiniteSets, Bags, TLC

VARIABLES MARS_to_TONW,      \* rows of MARS_to_TONW.csv
          tonw_df,           \* rows of "table of net weights corrected names.xlsx"
          package_to_pounds, \* rows of package_to_pounds.csv (the persisted cache)
          args,              \* arguments of the call that has just returned
          result,            \* what that call returned or raised ("idle": no call)
          calls,             \* the calls in flight of the concurrent callers
          lock,              \* the caller that holds the exclusive lock, or "free"
          serialized         \* TRUE: every caller runs its whole call under the lock

vars == <<MARS_to_TONW, tonw_df, package_to_pounds, args, result,
          calls, lock, serialized>>

(* the state of the concurrent callers, which a single caller leaves alone *)
concurrent == <<calls, lock, serialized>>

----------------------------------------------------------------------------
(* Bounds of the model: the number of rows a reference table may hold *)

MaxRules == 1
MaxTonwRows == 1

(* pounds = None, written to the csv as an empty field and read back as   *)
(* NaN; drop_duplicates and the NaN test treat the two alike               *)
NULL == -1

----------------------------------------------------------------------------
(* Text *)

Digits == <<"0", "1", "2", "3", "4", "5", "6", "7", "8", "9">>

LB == <<"l", "b">>
KG == <<"k", "g">>

(* sub in text *)
Contains(text, sub) ==
    \E i \in 1..(Len(text) - Len(sub) + 1) : SubSeq(text, i, i + Len(sub) - 1) = sub

(* text.replace(a, b) for single characters a and b *)
Replace(text, a, b) == [i \in 1..Len(text) |-> IF text[i] = a THEN b ELSE text[i]]

(* text.split(sep) for a single character sep: every sep cuts, empty words are kept *)
RECURSIVE Split(_, _)
Split(text, sep) ==
    IF \A i \in 1..Len(text) : text[i] # sep
    THEN <<text>>
    ELSE LET i == CHOOSE j \in 1..Len(text) :
                      text[j] = sep /\ \A k \in 1..(j - 1) : text[k] # sep
         IN  <<SubSeq(text, 1, i - 1)>> \o Split(SubSeq(text, i + 1, Len(text)), sep)

(* list.index(x) counted from 1; 0 stands for the ValueError of an absent x *)
Index(list, x) ==
    IF \A i \in 1..Len(list) : list[i] # x
    THEN 0
    ELSE CHOOSE j \in 1..Len(list) : list[j] = x /\ \A k \in 1..(j - 1) : list[k] # x

(* list[i] with Python's zero-based index i, a negative i counting from the end *)
PyItem(list, i) == IF i >= 0 THEN list[i + 1] ELSE list[Len(list) + i + 1]

DigitValue(c) == (CHOOSE d \in 1..Len(Digits) : Digits[d] = c) - 1

IsDigit(c) == \E d \in 1..Len(Digits) : Digits[d] = c

(* int(word) succeeds: a non-empty run of decimal digits.  (int() also    *)
(* takes a sign and underscores between digits; no descriptor below has   *)
(* them.)                                                                  *)
IsIntLiteral(word) == Len(word) > 0 /\ \A i \in 1..Len(word) : IsDigit(word[i])

RECURSIVE IntOf(_)
IntOf(word) ==
    IF Len(word) = 0 THEN 0
    ELSE 10 * IntOf(SubSeq(word, 1, Len(word) - 1)) + DigitValue(word[Len(word)])

----------------------------------------------------------------------------
(* Inputs: commodities, varieties and package descriptors *)

Commodities == {"Tomatoes", "Kale"}

(* commodities MARS_to_TONW.csv may be populated for *)
RuleCommodities == {"Tomatoes"}

VarietyOrder == <<"Roma", "Plum">>

TonwCommodities == {"TOMATOES"}

P_lb    == <<"2", "5", " ", "l", "b", "/", "c", "t", "n">>   \* "25 lb/ctn"
P_lbs   == <<"2", "5", " ", "l", "b", "s">>                  \* "25 lbs"
P_lb1st == <<"l", "b", " ", "2", "5">>                       \* "lb 25"
P_kg    == <<"1", "0", " ", "k", "g">>                       \* "10 kg"
P_bad   == <<"x", " ", "l", "b">>                            \* "x lb"
P_box   == <<"b", "o", "x">>                                 \* "box"

PackageOrder == <<P_lb, P_lbs, P_lb1st, P_kg, P_bad, P_box>>

(* Pack Descriptions the Table of Net Weights may list *)
TonwDescriptions == {P_box, P_lb}

(* Package Weight values of the Table of Net Weights *)
Weights == {7}

Range(list) == {list[i] : i \in 1..Len(list)}

(* the members of S as a list, in the order of `order` *)
SubList(order, S) ==
    LET keep(x) == x \in S IN SelectSeq(order, keep)

VarietyLists ==
    {SubList(VarietyOrder, S) : S \in (SUBSET Range(VarietyOrder)) \ {{}}}

(* package_types: every single descriptor, and some lists of two *)
PackageLists ==
    {<<p>> : p \in Range(PackageOrder)} \cup {<<P_lb, P_box>>, <<P_box, P_bad>>}

RuleRow(c, v, t) == [commodity |-> c, variety |-> v, tonw |-> t]

TonwRow(t, d, w) == [Commodity |-> t, PackDescription |-> d, PackageWeight |-> w]

Row(c, v, p, w) == [commodity |-> c, variety |-> v, package |-> p, pounds |-> w]

----------------------------------------------------------------------------
(* The resolution of one (variety, package) pair: the body of the loops    *)
(* of get_package_weight_map.  An outcome is a weight or a raised exception. *)

Return(w) == [exc |-> "none", pounds |-> w]

Raise(e) == [exc |-> e, pounds |-> NULL]

(* pounds = int(words_list[words_list.index("lb")-1]) *)
LbPounds(words_list) ==
    LET k == Index(words_list, LB) IN
    IF k = 0
    THEN Raise("ValueError")
    ELSE LET word == PyItem(words_list, (k - 1) - 1) IN
         IF IsIntLiteral(word) THEN Return(IntOf(word)) ELSE Raise("ValueError")

(* pounds = int(words_list[words_list.index("kg")-1]*2.2): the word is a   *)
(* str, and str * float raises TypeError before int() is reached           *)
KgPounds(words_list) ==
    LET k == Index(words_list, KG) IN
    IF k = 0 THEN Raise("ValueError") ELSE Raise("TypeError")

(* FilterCommodity without the comparison with the commodity asked for *)
FilterCommodity_AnyCommodity(rules, commodity) == rules

(* MARS_to_TONW[MARS_to_TONW['MARS commodity'] == commodity] *)
FilterCommodity(rules, commodity) ==
    LET keep(r) == r.commodity = commodity IN SelectSeq(rules, keep)

(* the look-up in the Table of Net Weights *)
TonwPounds(mars_to_tonw_df, tonw, variety, package) ==
    LET isVariety(r) == r.variety = variety
        variety_df == SelectSeq(mars_to_tonw_df, isVariety)
    IN  IF variety_df = <<>>
        THEN Return(NULL)
        ELSE LET tonw_commodity == variety_df[1].tonw
                 match(r) == r.Commodity = tonw_commodity /\ r.PackDescription = package
                 sub_tonw_df == SelectSeq(tonw, match)
             IN  IF sub_tonw_df = <<>>
                 THEN Return(NULL)
                 ELSE Return(sub_tonw_df[1].PackageWeight)

PairPounds(mars_to_tonw_df, tonw, variety, package) ==
    LET words_list == Split(Replace(package, "/", " "), " ") IN
    IF Contains(package, LB) THEN LbPounds(words_list)
    ELSE IF Contains(package, KG) THEN KgPounds(words_list)
    ELSE TonwPounds(mars_to_tonw_df, tonw, variety, package)

----------------------------------------------------------------------------
(* get_package_weight_map *)

(* the (variety, package) pairs in the order of the two nested loops *)
Pairs(variety_list, package_types) ==
    [i \in 1..(Len(variety_list) * Len(package_types)) |->
        [variety |-> variety_list[((i - 1) \div Len(package_types)) + 1],
         package |-> package_types[((i - 1) % Len(package_types)) + 1]]]

(* the rows of a frame built row by row *)
RECURSIVE BagOfSeq(_)
BagOfSeq(rows) ==
    IF rows = <<>> THEN EmptyBag
    ELSE BagOfSeq(Tail(rows)) (+) SetToBag({Head(rows)})

(* package_to_pounds[(commodity == commodity) & variety.isin(variety_list)] *)
TempDf(cache, commodity, variety_list) ==
    LET kept == {r \in BagToSet(cache) :
                    r.commodity = commodity /\ r.variety \in Range(variety_list)}
    IN  [r \in kept |-> cache[r]]

(* the four nested tests that guard return(temp_df) *)
CacheHit(temp_df, variety_list, package_types) ==
    /\ temp_df # EmptyBag
    /\ Range(variety_list) \subseteq {r.variety : r \in BagToSet(temp_df)}
    /\ Range(package_types) \subseteq {r.package : r \in BagToSet(temp_df)}
    /\ \A r \in BagToSet(temp_df) : r.pounds # NULL

(* DataFrame.drop_duplicates: one of equal rows is kept, NaN equals NaN *)
DropDuplicates(df) == SetToBag(BagToSet(df))

(* WriteBack without the concat: only the new frame is written *)
WriteBack_OnlyNew(cache, pound_mapper) == DropDuplicates(pound_mapper)

(* WriteBack that writes package_to_pounds, not package_to_pounds_new *)
WriteBack_OnlyOld(cache, pound_mapper) == DropDuplicates(cache)

(* pd.concat, drop_duplicates, to_csv: the rows written to package_to_pounds.csv *)
WriteBack(cache, pound_mapper) == DropDuplicates(cache (+) pound_mapper)

(* The outcome of a call: what it returns or raises, and the cache it leaves *)
Resolve(commodity, variety_list, package_types, rules, tonw, cache) ==
    LET mars_to_tonw_df == FilterCommodity(rules, commodity)
        temp_df == TempDf(cache, commodity, variety_list)
        pairs == Pairs(variety_list, package_types)
        outcomes == [i \in 1..Len(pairs) |->
                        PairPounds(mars_to_tonw_df, tonw, pairs[i].variety, pairs[i].package)]
        failed == {i \in 1..Len(pairs) : outcomes[i].exc # "none"}
        pound_mapper == BagOfSeq([i \in 1..Len(pairs) |->
                            Row(commodity, pairs[i].variety, pairs[i].package,
                                outcomes[i].pounds)])
    IN  IF mars_to_tonw_df = <<>>
        THEN [kind |-> "None", rows |-> EmptyBag, cache |-> cache]
        ELSE IF CacheHit(temp_df, variety_list, package_types)
        THEN [kind |-> "data", rows |-> temp_df, cache |-> cache]
        ELSE IF failed # {}
        THEN LET first == CHOOSE i \in failed : \A j \in failed : i <= j
             IN  [kind |-> outcomes[first].exc, rows |-> EmptyBag, cache |-> cache]
        ELSE [kind |-> "data", rows |-> pound_mapper,
              cache |-> WriteBack(cache, pound_mapper)]

NoArgs == [commodity |-> "", variety_list |-> <<>>, package_types |-> <<>>]

NoResult == [kind |-> "idle", rows |-> EmptyBag]

get_package_weight_map(commodity, variety_list, package_types) ==
    /\ result.kind = "idle"
    /\ args' = [commodity |-> commodity, variety_list |-> variety_list,
                package_types |-> package_types]
    /\ LET out == Resolve(commodity, variety_list, package_types,
                          MARS_to_TONW, tonw_df, package_to_pounds)
       IN  /\ result' = [kind |-> out.kind, rows |-> out.rows]
           /\ package_to_pounds' = out.cache
    /\ UNCHANGED <<MARS_to_TONW, tonw_df>>
    /\ UNCHANGED concurrent

(* the caller has the outcome and goes on *)
Continue ==
    /\ result.kind # "idle"
    /\ args' = NoArgs
    /\ result' = NoResult
    /\ UNCHANGED <<MARS_to_TONW, tonw_df, package_to_pounds>>
    /\ UNCHANGED concurrent

----------------------------------------------------------------------------
(* Edits of the reference tables between calls *)

Remove(list, i) == SubSeq(list, 1, i - 1) \o SubSeq(list, i + 1, Len(list))

AddRule(c, v, t) ==
    /\ result.kind = "idle"
    /\ Len(MARS_to_TONW) < MaxRules
    /\ MARS_to_TONW' = Append(MARS_to_TONW, RuleRow(c, v, t))
    /\ UNCHANGED <<tonw_df, package_to_pounds, args, result>>
    /\ UNCHANGED concurrent

DropRule(i) ==
    /\ result.kind = "idle"
    /\ i \in 1..Len(MARS_to_TONW)
    /\ MARS_to_TONW' = Remove(MARS_to_TONW, i)
    /\ UNCHANGED <<tonw_df, package_to_pounds, args, result>>
    /\ UNCHANGED concurrent

AddTonwRow(t, d, w) ==
    /\ result.kind = "idle"
    /\ Len(tonw_df) < MaxTonwRows
    /\ tonw_df' = Append(tonw_df, TonwRow(t, d, w))
    /\ UNCHANGED <<MARS_to_TONW, package_to_pounds, args, result>>
    /\ UNCHANGED concurrent

DropTonwRow(i) ==
    /\ result.kind = "idle"
    /\ i \in 1..Len(tonw_df)
    /\ tonw_df' = Remove(tonw_df, i)
    /\ UNCHANGED <<MARS_to_TONW, package_to_pounds, args, result>>
    /\ UNCHANGED concurrent

----------------------------------------------------------------------------
(* Two callers of get_package_weight_map at once.  A call touches the      *)
(* cache file twice: read_csv takes the whole file into the caller's own   *)
(* frame, to_csv replaces the whole file by the frame the caller built     *)
(* from what it read.  Everything in between works on the caller's frames. *)

Callers == {"a", "b"}

(* a caller that has not called yet *)
NoCall == [pc |-> "idle", args |-> NoArgs, package_to_pounds |-> EmptyBag,
           result |-> NoResult, wrote |-> FALSE]

(* the call gets as far as to_csv: it returns pound_mapper, not temp_df *)
Persists(commodity, variety_list, package_types, rules, tonw, cache) ==
    /\ Resolve(commodity, variety_list, package_types, rules, tonw, cache).kind = "data"
    /\ ~CacheHit(TempDf(cache, commodity, variety_list), variety_list, package_types)

(* the caller takes the exclusive lock before it calls *)
Acquire(p) ==
    /\ serialized
    /\ calls[p].pc = "idle"
    /\ lock = "free"
    /\ lock' = p
    /\ UNCHANGED <<MARS_to_TONW, tonw_df, package_to_pounds, args, result,
                   calls, serialized>>

(* the call up to read_csv("package_to_pounds.csv"): it returns None for a *)
(* commodity without a rule, else it holds the cache as it is now          *)
ReadCache(p, commodity, variety_list, package_types) ==
    /\ calls[p].pc = "idle"
    /\ serialized => lock = p
    /\ LET a == [commodity |-> commodity, variety_list |-> variety_list,
                 package_types |-> package_types]
       IN  calls' = [calls EXCEPT ![p] =
                IF FilterCommodity(MARS_to_TONW, commodity) = <<>>
                THEN [pc |-> "done", args |-> a, package_to_pounds |-> EmptyBag,
                      result |-> [kind |-> "None", rows |-> EmptyBag],
                      wrote |-> FALSE]
                ELSE [pc |-> "read", args |-> a,
                      package_to_pounds |-> package_to_pounds,
                      result |-> NoResult, wrote |-> FALSE]]
    /\ UNCHANGED <<MARS_to_TONW, tonw_df, package_to_pounds, args, result,
                   lock, serialized>>

(* the rest of the call, from temp_df to the return: the frame the caller  *)
(* read decides the outcome and, with pound_mapper, is what to_csv writes  *)
ResolveAndPersist(p) ==
    /\ calls[p].pc = "read"
    /\ LET a == calls[p].args
           out == Resolve(a.commodity, a.variety_list, a.package_types,
                          MARS_to_TONW, tonw_df, calls[p].package_to_pounds)
           wrote == Persists(a.commodity, a.variety_list, a.package_types,
                             MARS_to_TONW, tonw_df, calls[p].package_to_pounds)
       IN  /\ calls' = [calls EXCEPT ![p].pc = "done",
                                     ![p].result = [kind |-> out.kind, rows |-> out.rows],
                                     ![p].wrote = wrote]
           /\ package_to_pounds' = IF wrote THEN out.cache ELSE package_to_pounds
    /\ UNCHANGED <<MARS_to_TONW, tonw_df, args, result, lock, serialized>>

(* the caller gives the lock back when its call is over *)
Release(p) ==
    /\ lock = p
    /\ calls[p].pc = "done"
    /\ lock' = "free"
    /\ UNCHANGED <<MARS_to_TONW, tonw_df, package_to_pounds, args, result,
                   calls, serialized>>

(* the reference tables the two calls may find *)
RuleTables ==
    UNION {[1..n -> {RuleRow(c, v, t) : c \in RuleCommodities,
                                       v \in Range(VarietyOrder),
                                       t \in TonwCommodities}] : n \in 0..MaxRules}

TonwTables ==
    UNION {[1..n -> {TonwRow(t, d, w) : t \in TonwCommodities,
                                       d \in TonwDescriptions,
                                       w \in Weights}] : n \in 0..MaxTonwRows}

InitConc ==
    /\ MARS_to_TONW \in RuleTables
    /\ tonw_df \in TonwTables
    /\ package_to_pounds = EmptyBag
    /\ args = NoArgs
    /\ result = NoResult
    /\ calls = [p \in Callers |-> NoCall]
    /\ lock = "free"
    /\ serialized \in BOOLEAN

NextConc ==
    \/ \E p \in Callers : Acquire(p)
    \/ \E p \in Callers, c \in Commodities, vl \in VarietyLists, pt \in PackageLists :
          ReadCache(p, c, vl, pt)
    \/ \E p \in Callers : ResolveAndPersist(p)
    \/ \E p \in Callers : Release(p)

SpecConc == InitConc /\ [][NextConc]_vars

----------------------------------------------------------------------------

Init ==
    /\ MARS_to_TONW = <<>>
    /\ tonw_df = <<>>
    /\ package_to_pounds = EmptyBag
    /\ args = NoArgs
    /\ result = NoResult
    /\ calls = [p \in Callers |-> NoCall]
    /\ lock = "free"
    /\ serialized = FALSE

Next ==
    \/ \E c \in Commodities, vl \in VarietyLists, pt \in PackageLists :
          get_package_weight_map(c, vl, pt)
    \/ Continue
    \/ \E c \in RuleCommodities, v \in Range(VarietyOrder), t \in TonwCommodities :
          AddRule(c, v, t)
    \/ \E i \in 1..MaxRules : DropRule(i)
    \/ \E t \in TonwCommodities, d \in TonwDescriptions, w \in Weights :
          AddTonwRow(t, d, w)
    \/ \E i \in 1..MaxTonwRows : DropTonwRow(i)

Spec == Init /\ [][Next]_vars

----------------------------------------------------------------------------
(* Vocabulary of the properties *)

(* a step that is one call of get_package_weight_map *)
CallStep == result.kind = "idle" /\ result'.kind # "idle"

(* the commodity has a row in MARS_to_TONW *)
HasRule(commodity) == \E i \in 1..Len(MARS_to_TONW) : MARS_to_TONW[i].commodity = commodity

(* the rows of a frame for one (commodity, variety, package) *)
RowsFor(df, c, v, p) ==
    {r \in BagToSet(df) : r.commodity = c /\ r.variety = v /\ r.package = p}

Requested(a) ==
    {<<v, p>> : v \in Range(a.variety_list), p \in Range(a.package_types)}

(* the descriptor holds the text "N unit", N a run of decimal digits *)
NumberEnds(package, unit) ==
    {i \in 1..Len(package) :
        /\ IsDigit(package[i])
        /\ i + 1 + Len(unit) <= Len(package)
        /\ SubSeq(package, i + 1, i + 1 + Len(unit)) = <<" ">> \o unit}

(* that N, for the first such place of the descriptor *)
NumberBefore(package, unit) ==
    LET e == CHOOSE i \in NumberEnds(package, unit) :
                 \A j \in NumberEnds(package, unit) : i <= j
        b == CHOOSE i \in 1..e :
                 /\ \A k \in i..e : IsDigit(package[k])
                 /\ (i = 1 \/ ~IsDigit(package[i - 1]))
    IN  IntOf(SubSeq(package, b, e))

(* the reference tables hold a weight for the pair: a rule row for          *)
(* (commodity, variety) and a Net Weight row for (its tonw, the descriptor) *)
TableWeights(c, v, p) ==
    {tonw_df[j].PackageWeight : j \in
        {j \in 1..Len(tonw_df) :
            /\ tonw_df[j].PackDescription = p
            /\ \E i \in 1..Len(MARS_to_TONW) :
                  /\ MARS_to_TONW[i].commodity = c
                  /\ MARS_to_TONW[i].variety = v
                  /\ MARS_to_TONW[i].tonw = tonw_df[j].Commodity}}

Plain(package) == ~Contains(package, LB) /\ ~Contains(package, KG)

----------------------------------------------------------------------------
(* C1: cache precedence.  A call that returns data returns, for every      *)
(* requested tuple that had an entry in package_to_pounds before the call  *)
(* (a null one included), a weight stored for it.                           *)
C1_CachePrecedence ==
    [][(CallStep /\ result'.kind = "data") =>
        \A vp \in Requested(args') :
            LET stored == RowsFor(package_to_pounds, args'.commodity, vp[1], vp[2])
                got == RowsFor(result'.rows, args'.commodity, vp[1], vp[2])
            IN  stored # {} =>
                    /\ got # {}
                    /\ {r.pounds : r \in got} \subseteq {r.pounds : r \in stored}]_vars

(* C2: a descriptor that holds "N lb", N positive, for a commodity with a  *)
(* rule row and a tuple not in the cache, resolves to N.                    *)
C2_PoundsParsed ==
    [][CallStep /\ HasRule(args'.commodity) =>
        \A vp \in Requested(args') :
            (/\ NumberEnds(vp[2], LB) # {}
             /\ NumberBefore(vp[2], LB) > 0
             /\ RowsFor(package_to_pounds, args'.commodity, vp[1], vp[2]) = {})
            => /\ result'.kind = "data"
               /\ {r.pounds : r \in RowsFor(result'.rows, args'.commodity, vp[1], vp[2])}
                      = {NumberBefore(vp[2], LB)}]_vars

(* C3: a descriptor that holds "N kg" and no "lb", for a commodity with a  *)
(* rule row and a tuple not in the cache, resolves to (22 * N) div 10 and  *)
(* the call returns normally.                                               *)
C3_KilogramsConverted ==
    [][CallStep /\ HasRule(args'.commodity) =>
        \A vp \in Requested(args') :
            (/\ NumberEnds(vp[2], KG) # {}
             /\ ~Contains(vp[2], LB)
             /\ RowsFor(package_to_pounds, args'.commodity, vp[1], vp[2]) = {})
            => /\ result'.kind = "data"
               /\ {r.pounds : r \in RowsFor(result'.rows, args'.commodity, vp[1], vp[2])}
                      = {(22 * NumberBefore(vp[2], KG)) \div 10}]_vars

(* the (variety, package, pounds) rows of a frame *)
Triples(df) == {<<r.variety, r.package, r.pounds>> : r \in BagToSet(df)}

(* C4: idempotence.  After a call, the same call made again with the files *)
(* as they are ends the same way, returns the same (variety, package,      *)
(* pounds) rows and leaves package_to_pounds as it is.                      *)
C4_Idempotent ==
    result.kind # "idle" =>
        LET again == Resolve(args.commodity, args.variety_list, args.package_types,
                             MARS_to_TONW, tonw_df, package_to_pounds)
        IN  /\ again.kind = result.kind
            /\ Triples(again.rows) = Triples(result.rows)
            /\ again.cache = package_to_pounds

(* C5: a call that returns data returns one row for every pair of          *)
(* variety_list x package_types and no other row.                           *)
C5_CrossProduct ==
    result.kind = "data" =>
        /\ \A vp \in Requested(args) :
              \E r \in BagToSet(result.rows) :
                  /\ RowsFor(result.rows, args.commodity, vp[1], vp[2]) = {r}
                  /\ CopiesIn(r, result.rows) = 1
        /\ \A r \in BagToSet(result.rows) :
              r.commodity = args.commodity /\ <<r.variety, r.package>> \in Requested(args)

(* C6: a call for a commodity with no row in MARS_to_TONW returns None,    *)
(* raising nothing, and leaves package_to_pounds unchanged.                 *)
C6_UnknownCommodity ==
    [][(CallStep /\ ~HasRule(args'.commodity)) =>
          (result'.kind = "None" /\ package_to_pounds' = package_to_pounds)]_vars

(* such a call, made with a descriptor that does not parse and a cache that holds rows *)
C6_Witness ==
    /\ result.kind = "None"
    /\ ~HasRule(args.commodity)
    /\ \E q \in Range(args.package_types) : q \in {P_bad, P_kg, P_lbs}
    /\ package_to_pounds # EmptyBag

(* C7: for a pair not in the cache whose descriptor holds neither "lb" nor *)
(* "kg" and for which the reference tables hold no weight, a call that     *)
(* returns data returns a null weight and leaves a null row in the cache.   *)
C7_UnresolvedIsNull ==
    [][(CallStep /\ result'.kind = "data") =>
        \A vp \in Requested(args') :
            (/\ Plain(vp[2])
             /\ TableWeights(args'.commodity, vp[1], vp[2]) = {}
             /\ RowsFor(package_to_pounds, args'.commodity, vp[1], vp[2]) = {})
            => /\ {r.pounds : r \in RowsFor(result'.rows, args'.commodity, vp[1], vp[2])}
                      = {NULL}
               /\ Row(args'.commodity, vp[1], vp[2], NULL)
                      \in BagToSet(package_to_pounds')]_vars

(* the descriptor holds the word "lb" (or, without "lb", the word "kg")    *)
(* and the word before it is no integer, or there is no word before it     *)
Malformed(package) ==
    /\ ~Plain(package)
    /\ LET unit == IF Contains(package, LB) THEN LB ELSE KG
           words == Split(Replace(package, "/", " "), " ")
           k == Index(words, unit)
       IN  k = 1 \/ (k > 1 /\ ~IsIntLiteral(words[k - 1]))

(* C8: a call for a commodity with a rule row and a malformed descriptor   *)
(* ends in a parse failure.                                                 *)
C8_ParseFailureSurfaced ==
    [][(/\ CallStep
        /\ HasRule(args'.commodity)
        /\ \E q \in Range(args'.package_types) : Malformed(q))
       => result'.kind \in {"ValueError", "TypeError"}]_vars

(* C9: package_to_pounds is append-only: every row it holds before a step  *)
(* it holds after it.                                                       *)
C9_AppendOnly ==
    [][BagToSet(package_to_pounds) \subseteq BagToSet(package_to_pounds')]_vars

(* a call has added rows to a cache that held the rows of an earlier call  *)
(* ("lb 25" and "box" are never requested together)                        *)
C9_Witness ==
    /\ result.kind = "data"
    /\ Range(args.package_types) = {P_lb1st}
    /\ \A r \in BagToSet(result.rows) : r \in BagToSet(package_to_pounds)
    /\ \E r \in BagToSet(package_to_pounds) : r.package = P_box /\ r.pounds = NULL
    /\ \E r \in BagToSet(package_to_pounds) : r.package = P_box /\ r.pounds # NULL

(* C10: reference-table fallback, first match wins.  A call that returns   *)
(* data returns, for a pair not in the cache, the weight of the reference  *)
(* tables when the descriptor holds neither "lb" nor "kg" and the tables   *)
(* hold one, and the parsed weight when the descriptor holds "N lb" or     *)
(* "N kg", whatever the tables hold for it.                                 *)
C10_TableFallback ==
    [][(CallStep /\ result'.kind = "data") =>
        \A vp \in Requested(args') :
            RowsFor(package_to_pounds, args'.commodity, vp[1], vp[2]) = {} =>
                LET got == {r.pounds :
                               r \in RowsFor(result'.rows, args'.commodity, vp[1], vp[2])}
                    table == TableWeights(args'.commodity, vp[1], vp[2])
                IN  /\ (Plain(vp[2]) /\ table # {}) => (got # {} /\ got \subseteq table)
                    /\ NumberEnds(vp[2], LB) # {} => got = {NumberBefore(vp[2], LB)}
                    /\ (NumberEnds(vp[2], KG) # {} /\ ~Contains(vp[2], LB))
                          => got = {(22 * NumberBefore(vp[2], KG)) \div 10}]_vars

----------------------------------------------------------------------------
(* the rows a caller computed and wrote: its pound_mapper *)
Computed(p) == IF calls[p].wrote THEN BagToSet(calls[p].result.rows) ELSE {}

BothFinished == \A p \in Callers : calls[p].pc = "done"

(* C11: concurrent invocation.  When every call runs from its first read   *)
(* to its return under the exclusive lock, then once both calls have       *)
(* finished every row either of them computed and wrote is in              *)
(* package_to_pounds.  Without the lock a lost update is reachable         *)
(* (C11_LostUpdate).                                                       *)
C11_SerializedKeepsAll ==
    (serialized /\ BothFinished) =>
        \A p \in Callers : Computed(p) \subseteq BagToSet(package_to_pounds)

(* both calls ran without the lock and have finished, and the cache lacks *)
(* a row that one of them computed and wrote                              *)
C11_LostUpdate ==
    /\ ~serialized
    /\ BothFinished
    /\ \E p \in Callers : ~(Computed(p) \subseteq BagToSet(package_to_pounds))

----------------------------------------------------------------------------
(* C12: key uniqueness of the persisted cache.  package_to_pounds never    *)
(* holds two rows with the same (commodity, variety, package) and          *)
(* different pounds, a null row and a resolved row included.               *)
C12_KeyUnique ==
    \A r, s \in BagToSet(package_to_pounds) :
        (r.commodity = s.commodity /\ r.variety = s.variety /\ r.package = s.package)
            => r.pounds = s.pounds

====
